---------------------------- MODULE Spec2Model ----------------------------
(***************************************************************************)
(* figma-structured-mcp: the export -> download -> compress -> upload      *)
(* pipeline (server.py, utils/image_export.py, utils/file_upload.py,       *)
(* utils/image_compression.py) as a state machine.                         *)
(*                                                                         *)
(* A pipeline call (get_figma_images) is a coroutine; between two awaits   *)
(* its code runs without interruption, so every action below is the code   *)
(* from one suspension point to the next.  Remote services (metadata       *)
(* query, image-URL query, binary download, upload endpoint) and the       *)
(* operating system (mkdir, rmtree, open) answer nondeterministically.     *)
(*                                                                         *)
(* Python dicts are records; a dict's keys are the record's DOMAIN.        *)
(***************************************************************************)
EXTENDS Integers, Sequences, FiniteSets, TLC

----------------------------------------------------------------------------
(* Bounds of the model *)

\* node ids of one image-URL response are 1..k, k <= MaxNodes
MaxNodes == 2
\* largest max_retries handed to download_image_from_url called on its own
MaxRetriesBound == 3

\* call slots: coroutines of get_figma_images that may be alive together
Runs == {1, 2}
\* values of datetime.now() at one-second resolution
Times == {0, 1}
\* document names returned by the node-metadata query, as character lists
RawNames == { <<"a">>, <<" ", "a">>, <<"/">>, <<":">>, <<" ">> }
\* format arguments a caller may pass; "gif" stands for any rejected one
FormatArgs == {"png", "jpg", "svg", "pdf", "gif"}

----------------------------------------------------------------------------
(* Program constants *)

\* download_image_from_url(max_retries: int = 3)
DEFAULT_MAX_RETRIES == 3

valid_formats == {"jpg", "png", "svg", "pdf"}

\* is_compression_supported: supported_formats
supported_formats == {"jpg", "jpeg", "png", "webp"}

\* upload_folder_images: default file_extensions, in list order
file_extensions == <<"png", "jpg", "jpeg", "gif", "svg", "webp">>

\* re.sub(r'[<>:"/\\|?*]', "_", node_name)
IllegalChars == {"<", ">", ":", "\"", "/", "\\", "|", "?", "*"}

----------------------------------------------------------------------------
(* Pure helpers *)

Range(s) == { s[i] : i \in DOMAIN s }

RECURSIVE LStrip(_)
LStrip(s) == IF s # <<>> /\ Head(s) = " " THEN LStrip(Tail(s)) ELSE s

RECURSIVE RStrip(_)
RStrip(s) ==
  IF s # <<>> /\ s[Len(s)] = " " THEN RStrip(SubSeq(s, 1, Len(s) - 1)) ELSE s

\* str.strip()
Strip(s) == RStrip(LStrip(s))

\* re.sub(r'[<>:"/\\|?*]', "_", s)
ReplaceIllegal(s) == [ i \in DOMAIN s |-> IF s[i] \in IllegalChars THEN "_" ELSE s[i] ]

\* the value stored in node_names for a document name, or <<>> when the
\* node gets no entry (empty name, or empty after cleaning)
SafeName(raw) ==
  LET node_name == Strip(raw)
  IN  IF node_name = <<>> THEN <<>> ELSE Strip(ReplaceIllegal(node_name))

\* f"{node_names[node_id]}.{format}"
NamedFile(safe_name, format) == safe_name \o <<".", format>>

\* f"figma_export_{node_id}_{timestamp}_{i+1}.{format}", i the enumerate index
FallbackFile(node_id, timestamp, i, format) ==
  << "figma_export_", ToString(node_id), "_", ToString(timestamp), "_",
     ToString(i + 1), ".", format >>

\* Path.suffix without the dot
Suffix(filename) == filename[Len(filename)]

\* is_compression_supported(image_path)
is_compression_supported(filename) == Suffix(filename) \in supported_formats

\* a set as a list, in a fixed order
RECURSIVE SetToSeq(_)
SetToSeq(S) ==
  IF S = {} THEN <<>>
  ELSE LET x == CHOOSE y \in S : TRUE IN <<x>> \o SetToSeq(S \ {x})

RECURSIVE Flatten(_)
Flatten(ss) == IF ss = <<>> THEN <<>> ELSE Head(ss) \o Flatten(Tail(ss))

Pow2(n) == 2 ^ n

----------------------------------------------------------------------------
(* Values returned to callers *)

\* handle_exception: {"success": False, "error": ..., "status_code": ...}
handle_exception(operation_name) ==
  [success |-> FALSE, error |-> operation_name, status_code |-> 500]

\* handle_api_error: {"success": False, "error": ..., "status_code": ...}
handle_api_error(operation_name) ==
  [success |-> FALSE, error |-> operation_name, status_code |-> 404]

\* a coroutine that has not returned
NoValue == [pending |-> TRUE]

\* an exception that left the function
Raised(what) == [raised |-> what]

----------------------------------------------------------------------------
(* State *)

VARIABLES
  pc,                \* pc[r]: the await at which call r is suspended
  req,               \* req[r]: the arguments of the call
  target,            \* target[r]: number of target node ids (they are 1..target)
  node_names,        \* node_names[r]: node id -> cleaned name
  download_tasks,    \* download_tasks[r]: list of download coroutines
  failed_downloads,  \* failed_downloads[r]
  downloaded_files,  \* downloaded_files[r]
  uploads,           \* uploads[r]: list of upload coroutines
  ret,               \* ret[r]: what the call returned
  dirExists,         \* the directory temp-images exists
  files,             \* the files in temp-images; by = the call slot whose
                     \* current call wrote the file, 0 for an earlier call
  provider           \* _storage_provider_instance

vars == << pc, req, target, node_names, download_tasks,
           failed_downloads, downloaded_files, uploads, ret,
           dirExists, files, provider >>

NoReq == [format |-> "png", scale_ok |-> TRUE]

Init ==
  /\ pc = [r \in Runs |-> "idle"]
  /\ req = [r \in Runs |-> NoReq]
  /\ target = [r \in Runs |-> 0]
  /\ node_names = [r \in Runs |-> << >>]
  /\ download_tasks = [r \in Runs |-> << >>]
  /\ failed_downloads = [r \in Runs |-> << >>]
  /\ downloaded_files = [r \in Runs |-> << >>]
  /\ uploads = [r \in Runs |-> << >>]
  /\ ret = [r \in Runs |-> NoValue]
  /\ dirExists = FALSE
  /\ files = {}
  /\ provider = "None"

\* the call in slot r returns value v (or raises) and is over
Return(r, v) ==
  /\ pc' = [pc EXCEPT ![r] = "done"]
  /\ ret' = [ret EXCEPT ![r] = v]

\* the local state of a call that has just been made
Fresh(r, request) ==
  /\ req' = [req EXCEPT ![r] = request]
  /\ node_names' = [node_names EXCEPT ![r] = << >>]
  /\ download_tasks' = [download_tasks EXCEPT ![r] = << >>]
  /\ failed_downloads' = [failed_downloads EXCEPT ![r] = << >>]
  /\ downloaded_files' = [downloaded_files EXCEPT ![r] = << >>]
  /\ uploads' = [uploads EXCEPT ![r] = << >>]

\* the final report of get_figma_images
Report(successful_uploads, failed_uploads) ==
  [successful_uploads |-> successful_uploads, failed_uploads |-> failed_uploads]

\* a failure dict built in place: {"success": False, "error": ...}
Failure(error) == [success |-> FALSE, error |-> error]

\* a download coroutine is inside compress_image: subprocess.run and img.save
\* are plain calls, so the thread of the event loop is inside it as well and
\* no callback of any call runs until it returns
Blocked ==
  \E r \in Runs : \E j \in DOMAIN download_tasks[r] :
    download_tasks[r][j].st = "Compressing"

----------------------------------------------------------------------------
(* server.py: get_figma_images up to its first await *)

\* what the files of temp-images are to a new call of slot r: the files the
\* slot's previous call wrote are files of an earlier call
Stale(fs, r) == { IF f.by = r THEN [f EXCEPT !.by = 0] ELSE f : f \in fs }

\* a faulty variant of ClearStaging that leaves the folder as it is; a call
\* that starts this way can find the files of an earlier call
ClearStagingSkipped(r) ==
  dirExists' = dirExists /\ files' = Stale(files, r)

\* lines 84-87: shutil.rmtree("temp-images") when the folder exists
ClearStaging(r) ==
  IF dirExists
  THEN dirExists' = FALSE /\ files' = {}
  ELSE dirExists' = FALSE /\ files' = Stale(files, r)

\* an invocation of the tool with no FIGMA_ACCESS_TOKEN: ValueError leaves it
CallWithoutToken(r) ==
  /\ ~Blocked
  /\ pc[r] \in {"idle", "done"}
  /\ Fresh(r, NoReq)
  /\ Return(r, Raised("ValueError"))
  /\ target' = [target EXCEPT ![r] = 0]
  /\ files' = Stale(files, r)
  /\ UNCHANGED << dirExists, provider >>

\* an invocation with a token: the staging folder is cleared, then the child
\* query (export_children) or the node-name query is awaited; N bounds the
\* number of node ids, Formats the format argument
Call(r, N, Formats) ==
  /\ ~Blocked
  /\ pc[r] \in {"idle", "done"}
  /\ \E format \in Formats, scale_ok \in BOOLEAN, n_ids \in 0..N,
        rmtree_ok \in BOOLEAN :
       /\ ~dirExists => rmtree_ok
       /\ Fresh(r, [format |-> format, scale_ok |-> scale_ok])
       /\ IF dirExists /\ ~rmtree_ok
          THEN \* rmtree raised: except Exception -> handle_exception
               /\ Return(r, handle_exception("get_figma_images"))
               /\ target' = [target EXCEPT ![r] = 0]
               /\ files' = Stale(files, r)
               /\ UNCHANGED dirExists
          ELSE /\ ClearStaging(r)
               /\ ret' = [ret EXCEPT ![r] = NoValue]
               /\ target' = [target EXCEPT ![r] = n_ids]
               \* n_ids = 0 stands for export_children=True: the targets are
               \* the children; otherwise they are the n_ids node ids given
               /\ pc' = [pc EXCEPT ![r] = IF n_ids = 0 THEN "children" ELSE "names"]
  /\ UNCHANGED provider

\* a faulty variant of ChildResponse that goes on with whatever list of
\* children came back, the empty one included
ChildResponseUnchecked(r, N) ==
  /\ ~Blocked
  /\ pc[r] = "children"
  /\ \E k \in 0..N :
       /\ target' = [target EXCEPT ![r] = k]
       /\ pc' = [pc EXCEPT ![r] = "names"]
  /\ UNCHANGED << req, node_names, download_tasks, failed_downloads,
                  downloaded_files, uploads, ret, dirExists, files, provider >>

\* the answer to get_child_node_ids
ChildResponse(r, N) ==
  /\ ~Blocked
  /\ pc[r] = "children"
  /\ \E outcome \in {"200", "status", "exception"}, k \in 0..N :
       CASE outcome = "200" /\ k > 0 ->
              /\ target' = [target EXCEPT ![r] = k]
              /\ pc' = [pc EXCEPT ![r] = "names"]
              /\ UNCHANGED ret
         [] outcome = "200" /\ k = 0 ->
              /\ Return(r, Failure("no children"))
              /\ UNCHANGED target
         [] outcome = "status" /\ k = 0 ->
              /\ Return(r, handle_api_error("get_child_node_ids"))
              /\ UNCHANGED target
         [] outcome = "exception" /\ k = 0 ->
              /\ Return(r, handle_exception("get_child_node_ids"))
              /\ UNCHANGED target
         [] OTHER -> FALSE
  /\ UNCHANGED << req, node_names, download_tasks, failed_downloads,
                  downloaded_files, uploads, dirExists, files, provider >>

\* a faulty variant of Validate that checks the format alone
ValidateFormatOnly(request) ==
  IF request.format \notin valid_formats THEN Failure("format")
  ELSE NoValue

\* get_figma_images_data before its request: a failure dict, or NoValue when
\* the arguments pass
Validate(request) ==
  IF request.format \notin valid_formats THEN Failure("format")
  ELSE IF ~request.scale_ok THEN Failure("scale")
  ELSE NoValue

\* a faulty variant of NamesAnswer that returns the failure of the node-name
\* query as the result of the export
NamesAnswerFatal(r, Names, outcome) ==
  /\ ~Blocked
  /\ pc[r] = "names"
  /\ IF outcome = "200"
     THEN /\ \E named \in [1..target[r] -> Names \cup {<< >>}] :
               node_names' = [node_names EXCEPT ![r] =
                                [n \in 1..target[r] |-> SafeName(named[n])]]
          /\ IF Validate(req[r]) # NoValue
             THEN Return(r, Validate(req[r]))
             ELSE pc' = [pc EXCEPT ![r] = "fetch"] /\ UNCHANGED ret
     ELSE /\ Return(r, handle_api_error("node names"))
          /\ node_names' = [node_names EXCEPT ![r] =
                              [n \in 1..target[r] |-> << >>]]
  /\ UNCHANGED << req, target, download_tasks, failed_downloads,
                  downloaded_files, uploads, dirExists, files, provider >>

\* export_figma_images_to_folder lines 296-343: the node-name query ends in
\* outcome.  A 200 answer names some of the nodes with names of Names; any
\* other status names none; an exception (transport, malformed body) leaves
\* the names stored before it.  Whatever the outcome, get_figma_images_data
\* is called next: it validates and awaits the image-URL query
NamesAnswer(r, Names, outcome) ==
  /\ ~Blocked
  /\ pc[r] = "names"
  /\ LET k == target[r] IN
     \E named \in [1..k -> Names \cup {<< >>}] :
       /\ outcome = "status" => named = [n \in 1..k |-> << >>]
       /\ node_names' = [node_names EXCEPT ![r] =
                           [n \in 1..k |-> SafeName(named[n])]]
       /\ IF Validate(req[r]) # NoValue
          THEN Return(r, Validate(req[r]))
          ELSE pc' = [pc EXCEPT ![r] = "fetch"] /\ UNCHANGED ret
  /\ UNCHANGED << req, target, download_tasks, failed_downloads,
                  downloaded_files, uploads, dirExists, files, provider >>

\* the answer to the node-name query
NamesResponse(r, Names) ==
  \E outcome \in {"200", "status", "exception"} :
    NamesAnswer(r, Names, outcome)

----------------------------------------------------------------------------
(* image_export.py: export_figma_images_to_folder after the URL fetch *)

\* URLs of an image-URL response: "" is the empty (null) URL
URLs == {"", "https"}

\* a coroutine download_image_from_url(image_url, output_path, filename),
\* created and not yet running; requests, sleeps and writes record the
\* requests sent, the delays slept and the times the file was opened for
\* writing
NewDownload(node_id, filename, max_retries) ==
  [node_id |-> node_id, filename |-> filename, max_retries |-> max_retries,
   st |-> "Pending", attempt |-> 0, requests |-> 0, sleeps |-> << >>,
   writes |-> 0,
   result |-> NoValue]

\* the filename loop lines 371-376 choose for node_id at enumerate index i
ChooseFilename(names, node_id, timestamp, i, format) ==
  IF names[node_id] # << >>
  THEN NamedFile(names[node_id], format)
  ELSE FallbackFile(node_id, timestamp, i, format)

\* the for loop over images.items(): the download coroutines, in order
RECURSIVE BuildTasks(_, _, _, _, _)
BuildTasks(images, names, stamps, format, i) ==
  IF i >= Len(images) THEN << >>
  ELSE LET node_id == i + 1 IN
       (IF images[node_id] = "" THEN << >>
        ELSE << NewDownload(node_id,
                  ChooseFilename(names, node_id, stamps[node_id], i, format),
                  DEFAULT_MAX_RETRIES) >>)
       \o BuildTasks(images, names, stamps, format, i + 1)

\* the for loop over images.items(): the entries for empty URLs, in order
RECURSIVE EmptyUrlFailures(_, _)
EmptyUrlFailures(images, i) ==
  IF i >= Len(images) THEN << >>
  ELSE (IF images[i + 1] = ""
        THEN << [node_id |-> i + 1, error |-> "empty url"] >> ELSE << >>)
       \o EmptyUrlFailures(images, i + 1)

\* a faulty variant of FetchResponse in which get_figma_images does not look
\* at the success flag of the export and goes on to its report, with nothing
\* downloaded
FetchResponseSwallowed(r, Clock) ==
  /\ ~Blocked
  /\ pc[r] = "fetch"
  /\ Return(r, Report(<< >>, << >>))
  /\ UNCHANGED << req, target, node_names, download_tasks, failed_downloads,
                  downloaded_files, uploads, dirExists, files, provider >>

\* the answer to the image-URL query, then the loop that creates the
\* download coroutines; asyncio.gather is awaited when there is one.
\* Clock: the values datetime.now() may take during the loop
FetchResponse(r, Clock) ==
  /\ ~Blocked
  /\ pc[r] = "fetch"
  /\ LET k == target[r] IN
     \E outcome \in {"200", "status", "exception"},
        images \in [1..k -> URLs] \cup {<< >>},
        stamps \in [1..k -> Clock],
        mkdir_ok \in BOOLEAN :
       /\ \A a, b \in 1..k : a <= b => stamps[a] <= stamps[b]
       /\ CASE outcome = "status" /\ images = << >> /\ mkdir_ok ->
                 /\ Return(r, handle_api_error("get_figma_images_data"))
                 /\ UNCHANGED << download_tasks, failed_downloads, dirExists >>
            [] outcome = "exception" /\ images = << >> /\ mkdir_ok ->
                 /\ Return(r, handle_exception("get_figma_images_data"))
                 /\ UNCHANGED << download_tasks, failed_downloads, dirExists >>
            [] outcome = "200" /\ images = << >> /\ mkdir_ok ->
                 /\ Return(r, Failure("no image urls"))
                 /\ UNCHANGED << download_tasks, failed_downloads, dirExists >>
            [] outcome = "200" /\ images # << >> /\ ~mkdir_ok ->
                 \* output_path.mkdir raised: handle_exception
                 /\ Return(r, handle_exception("export_figma_images_to_folder"))
                 /\ UNCHANGED << download_tasks, failed_downloads, dirExists >>
            [] outcome = "200" /\ images # << >> /\ mkdir_ok ->
                 LET tasks == BuildTasks(images, node_names[r], stamps,
                                         req[r].format, 0)
                     failed == EmptyUrlFailures(images, 0)
                 IN  /\ dirExists' = TRUE
                     /\ download_tasks' = [download_tasks EXCEPT ![r] = tasks]
                     /\ failed_downloads' = [failed_downloads EXCEPT ![r] = failed]
                     /\ IF tasks = << >>
                        THEN \* no gather; downloaded_files is empty, so
                             \* get_figma_images uploads nothing
                             Return(r, Report(<< >>, << >>))
                        ELSE pc' = [pc EXCEPT ![r] = "download"] /\ UNCHANGED ret
            [] OTHER -> FALSE
  /\ UNCHANGED << req, target, node_names, downloaded_files, uploads,
                  files, provider >>

----------------------------------------------------------------------------
(* image_compression.py: compress_image, compress_png_with_pngquant        *)

\* a quality argument is the fraction k / QualitySteps
QualitySteps == 20

\* the quality arguments tried: the fractions of [0, 1], one below, one above
Qualities == (0 - 1)..(QualitySteps + 1)

\* int(n / d) for d > 0: the fraction cut towards zero
Trunc(n, d) == IF n >= 0 THEN n \div d ELSE 0 - ((0 - n) \div d)

\* max(lo, min(hi, x))
Clamp(lo, hi, x) == IF x > hi THEN hi ELSE IF x < lo THEN lo ELSE x

\* lines 66 and 70: int(5 + quality * 80), kept in 5..85
min_quality(k) == Clamp(5, 85, Trunc(5 * QualitySteps + 80 * k, QualitySteps))

\* a faulty variant of max_quality with a slope that ends below min + 10
max_quality_flat(k) ==
  Clamp(20, 95, Trunc(20 * QualitySteps + 65 * k, QualitySteps))

\* lines 67 and 71: int(20 + quality * 75), kept in 20..95
max_quality(k) == Clamp(20, 95, Trunc(20 * QualitySteps + 75 * k, QualitySteps))

\* lines 66-75: the range given to pngquant --quality
quality_range(k) ==
  LET lo == min_quality(k)
      hi == max_quality(k)
  IN  IF hi <= lo THEN << lo, lo + 10 >> ELSE << lo, hi >>

\* a faulty variant of pil_quality without the offset 1
pil_quality_from_zero(k) == Clamp(1, 100, Trunc(99 * k, QualitySteps))

\* lines 196-197 and 205-206: int(1 + quality * 99), kept in 1..100
pil_quality(k) == Clamp(1, 100, Trunc(QualitySteps + 99 * k, QualitySteps))

\* what subprocess.run of pngquant may come to: "none" when pngquant is not
\* installed, an exit code, or "timeout" for TimeoutExpired
ReturnCodes == {"none", "0", "99", "1", "timeout"}

\* a faulty variant of compress_png_with_pngquant that has Pillow save the
\* file again when pngquant is not installed
compress_png_with_fallback(k, returncode) ==
  IF returncode = "none"
  THEN [success |-> TRUE, compression_method |-> "pillow",
        format |-> "PNG", quality |-> 0]
  ELSE IF returncode = "0"
  THEN [success |-> TRUE, compression_method |-> "pngquant",
        quality_range |-> quality_range(k)]
  ELSE IF returncode = "99"
  THEN [success |-> FALSE, error |-> "quality already good",
        quality_range |-> quality_range(k)]
  ELSE IF returncode = "timeout" THEN Failure("pngquant timed out")
  ELSE Failure("pngquant failed")

\* compress_png_with_pngquant(image_path, k / QualitySteps) when pngquant
\* comes to returncode
compress_png_with_pngquant(k, returncode) ==
  IF returncode = "none" THEN Failure("pngquant not found")
  ELSE IF returncode = "0"
  THEN [success |-> TRUE, compression_method |-> "pngquant",
        quality_range |-> quality_range(k)]
  ELSE IF returncode = "99"
  THEN [success |-> FALSE, error |-> "quality already good",
        quality_range |-> quality_range(k)]
  ELSE IF returncode = "timeout" THEN Failure("pngquant timed out")
  ELSE Failure("pngquant failed")

\* a faulty variant of SaveQuality that maps quality 0 to the best encoding
SaveQualityInverted(img_format, k) ==
  IF img_format \in {"JPEG", "JPG", "WEBP"}
  THEN 101 - pil_quality(k)
  ELSE 0

\* lines 189-212: the quality argument of img.save, 0 when it is given none
SaveQuality(img_format, k) ==
  IF img_format \in {"JPEG", "JPG", "WEBP"} THEN pil_quality(k) ELSE 0

\* image_path.suffix.upper().lstrip(".")
Upper(suffix) ==
  CASE suffix = "png" -> "PNG" [] suffix = "jpg" -> "JPG"
    [] suffix = "jpeg" -> "JPEG" [] suffix = "webp" -> "WEBP"
    [] OTHER -> suffix

\* the tools compress_image may find: whether Pillow was imported, and what
\* pngquant comes to
Tools == [pil_available : BOOLEAN, returncode : ReturnCodes]

\* lines 164-231: the value compress_image returns for a file with suffix
\* file_format that Pillow reads as img_format, with the tools of `tool`
compress_image_result(file_format, img_format, k, tool) ==
  LET quality == Clamp(0, QualitySteps, k) IN
  IF ~tool.pil_available THEN Failure("Pillow not installed")
  ELSE IF file_format = "PNG"
  THEN compress_png_with_pngquant(quality, tool.returncode)
  ELSE [success |-> TRUE, compression_method |-> "pillow",
        format |-> img_format, quality |-> SaveQuality(img_format, quality)]

\* the file compress_image leaves: rewritten in place by the tool that
\* succeeded, untouched otherwise
Recompress(fs, name, compression_result) ==
  { IF f.name = name /\ compression_result.success
    THEN [f EXCEPT !.data = compression_result.compression_method]
    ELSE f : f \in fs }

----------------------------------------------------------------------------
(* image_export.py: download_image_from_url *)

\* the file a download or a compression leaves under a name
WriteFile(fs, f) == { g \in fs : g.name # f.name } \cup {f}

SetTask(r, j, t) ==
  download_tasks' = [download_tasks EXCEPT ![r][j] = t]

\* a faulty variant of RetryOrFail that backs off by 2 * attempt
RetryOrFailLinear(t, error) ==
  IF t.attempt < t.max_retries
  THEN [t EXCEPT !.st = "Retrying", !.sleeps = Append(@, 2 * t.attempt)]
  ELSE [t EXCEPT !.st = "Exhausted", !.result = Failure(error)]

\* a faulty variant of RetryOrFail that gives up one attempt early
RetryOrFailEarly(t, error) ==
  IF t.attempt + 1 < t.max_retries
  THEN [t EXCEPT !.st = "Retrying", !.sleeps = Append(@, Pow2(t.attempt))]
  ELSE [t EXCEPT !.st = "Exhausted", !.result = Failure(error)]

\* lines 243-262: after a failed attempt, back off or give up
RetryOrFail(t, error) ==
  IF t.attempt < t.max_retries
  THEN [t EXCEPT !.st = "Retrying", !.sleeps = Append(@, Pow2(t.attempt))]
  ELSE [t EXCEPT !.st = "Exhausted", !.result = Failure(error)]

\* line 184 and the first pass of the loop up to its await: save_path.mkdir,
\* then the first request
StartDownload(t, mkdir_ok) ==
  IF mkdir_ok
  THEN [t EXCEPT !.st = "Attempting", !.requests = 1]
  ELSE \* mkdir is outside the try block: the exception leaves the function
       [t EXCEPT !.st = "Raised", !.result = Raised("OSError")]

\* gather has scheduled the coroutines: each runs up to its first await, one
\* after the other, before any other callback of the event loop
DownloadStart(r) ==
  /\ ~Blocked
  /\ pc[r] = "download"
  /\ \A j \in DOMAIN download_tasks[r] : download_tasks[r][j].st = "Pending"
  /\ \E mkdir_ok \in [DOMAIN download_tasks[r] -> BOOLEAN] :
       /\ download_tasks' = [download_tasks EXCEPT ![r] =
            [j \in DOMAIN @ |-> StartDownload(@[j], mkdir_ok[j])]]
       /\ dirExists' = (dirExists \/ \E j \in DOMAIN mkdir_ok : mkdir_ok[j])
  /\ UNCHANGED << pc, req, target, node_names, failed_downloads,
                  downloaded_files, uploads, ret, files, provider >>

\* what may happen to one attempt: a 200 answer written to the file, another
\* status, an exception of the request, a 200 answer whose f.write raised
AttemptOutcomes == {"200", "status", "exception", "write_error"}

\* the attempts of a pipeline whose disk takes every write it accepted
NoWriteError == AttemptOutcomes \ {"write_error"}

\* the answer to client.get(image_url) of the current attempt, one of
\* Outcomes; after a 200 answer the bytes are written and, for a file
\* is_compression_supported accepts, compress_image is entered
DownloadResponse(r, j, Outcomes) ==
  /\ ~Blocked
  /\ pc[r] = "download"
  /\ j \in DOMAIN download_tasks[r]
  /\ LET t == download_tasks[r][j]
         f == [name |-> t.filename, by |-> r, node |-> t.node_id,
               data |-> "raw"]
     IN
     /\ t.st = "Attempting"
     /\ \E outcome \in Outcomes :
          CASE outcome = "200" /\ dirExists ->
                 /\ files' = WriteFile(files, f)
                 /\ SetTask(r, j,
                      IF is_compression_supported(t.filename)
                      THEN [t EXCEPT !.st = "Compressing", !.writes = @ + 1]
                      ELSE [t EXCEPT !.st = "Succeeded", !.writes = @ + 1,
                             !.result = [success |-> TRUE,
                                         filename |-> t.filename]])
            [] outcome = "200" /\ ~dirExists ->
                 \* open(full_path, "wb") raised: the folder is gone
                 /\ UNCHANGED files
                 /\ SetTask(r, j, RetryOrFail(t, "exception"))
            [] outcome = "write_error" /\ dirExists ->
                 \* f.write raised after open created the file
                 /\ files' = WriteFile(files, [f EXCEPT !.data = "partial"])
                 /\ SetTask(r, j, [RetryOrFail(t, "exception")
                                     EXCEPT !.writes = @ + 1])
            [] outcome \in {"status", "exception"} ->
                 /\ UNCHANGED files
                 /\ SetTask(r, j, RetryOrFail(t, outcome))
            [] OTHER -> FALSE
  /\ UNCHANGED << pc, req, target, node_names, failed_downloads,
                  downloaded_files, uploads, ret, dirExists, provider >>

\* what Pillow reads in a file Figma rendered with this suffix
Rendered(suffix) == IF suffix = "jpg" THEN "JPEG" ELSE Upper(suffix)

\* a faulty variant of DownloadResult that hands on the failure of the
\* compressor as the result of the download
DownloadResultFatal(filename, compression_result) ==
  IF compression_result.success
  THEN [success |-> TRUE, filename |-> filename, compressed |-> TRUE,
        compression_method |-> compression_result.compression_method]
  ELSE compression_result

\* lines 198-241: the value download_image_from_url returns after
\* compress_image returned compression_result
DownloadResult(filename, compression_result) ==
  IF compression_result.success
  THEN [success |-> TRUE, filename |-> filename, compressed |-> TRUE,
        compression_method |-> compression_result.compression_method]
  ELSE [success |-> TRUE, filename |-> filename, compressed |-> FALSE,
        compression_error |-> compression_result.error]

\* compress_image returns to the download that called it, having found one
\* of the tools of ToolSet; compression_quality is taken as 1.0
Compress(r, j, ToolSet) ==
  /\ pc[r] = "download"
  /\ j \in DOMAIN download_tasks[r]
  /\ LET t == download_tasks[r][j] IN
     /\ t.st = "Compressing"
     /\ \E tool \in ToolSet :
          LET compression_result ==
                compress_image_result(Upper(Suffix(t.filename)),
                                      Rendered(Suffix(t.filename)),
                                      QualitySteps, tool)
          IN  /\ files' = Recompress(files, t.filename, compression_result)
              /\ SetTask(r, j, [t EXCEPT !.st = "Succeeded",
                   !.result = DownloadResult(t.filename, compression_result)])
  /\ UNCHANGED << pc, req, target, node_names, failed_downloads,
                  downloaded_files, uploads, ret, dirExists, provider >>

\* asyncio.sleep(2**attempt) is over: the next attempt's request is awaited
DownloadWake(r, j) ==
  /\ ~Blocked
  /\ pc[r] = "download"
  /\ j \in DOMAIN download_tasks[r]
  /\ LET t == download_tasks[r][j] IN
     /\ t.st = "Retrying"
     /\ SetTask(r, j, [t EXCEPT !.st = "Attempting", !.attempt = @ + 1,
                                !.requests = @ + 1])
  /\ UNCHANGED << pc, req, target, node_names, failed_downloads,
                  downloaded_files, uploads, ret, dirExists, files,
                  provider >>

----------------------------------------------------------------------------
(* image_export.py lines 387-427, server.py lines 119-153,                 *)
(* file_upload.py upload_folder_images                                     *)

Terminal(t) == t.st \in {"Succeeded", "Exhausted", "Raised"}

\* an exception object among the results of gather(return_exceptions=True)
IsException(result) == "raised" \in DOMAIN result

IsSuccess(result) == "success" \in DOMAIN result /\ result.success

\* a faulty variant of GatherResults that hands the results back in another
\* order than that of the awaitables
GatherResultsReversed(tasks) ==
  [j \in DOMAIN tasks |-> tasks[Len(tasks) + 1 - j].result]

\* asyncio.gather: the results, in the order of the awaitables
GatherResults(tasks) == [j \in DOMAIN tasks |-> tasks[j].result]

\* zip(download_tasks, download_results)
Zip(tasks, results) ==
  [j \in 1..(IF Len(tasks) < Len(results) THEN Len(tasks) ELSE Len(results))
     |-> [node_id |-> tasks[j].node_id, result |-> results[j]]]

\* lines 394-413: the entries appended to downloaded_files
CollectDownloaded(pairs, names) ==
  LET ok(p) == ~IsException(p.result) /\ IsSuccess(p.result)
      hit == SelectSeq(pairs, ok)
  IN  [j \in DOMAIN hit |->
         [node_id |-> hit[j].node_id, filename |-> hit[j].result.filename,
          uses_original_name |-> names[hit[j].node_id] # << >>]]

\* lines 394-413: the entries appended to failed_downloads
CollectFailed(pairs) ==
  LET bad(p) == IsException(p.result) \/ ~IsSuccess(p.result)
      miss == SelectSeq(pairs, bad)
  IN  [j \in DOMAIN miss |->
         [node_id |-> miss[j].node_id,
          error |-> IF IsException(miss[j].result) THEN miss[j].result.raised
                    ELSE miss[j].result.error]]

\* p.rglob(f"*{ext}") for one extension
Glob(fs, ext) ==
  { f.name : f \in { g \in fs : Len(g.name) >= 2 /\ g.name[Len(g.name) - 1] = "."
                                /\ Suffix(g.name) = ext } }

\* a faulty variant of ScanFolder that globs every extension twice
ScanFolderTwice(fs, exts) ==
  Flatten([e \in 1..(2 * Len(exts)) |->
             SetToSeq(Glob(fs, exts[((e - 1) % Len(exts)) + 1]))])

\* upload_folder_images: image_files, extension by extension
ScanFolder(fs, exts) == Flatten([e \in DOMAIN exts |-> SetToSeq(Glob(fs, exts[e]))])

NoSrc == -1

\* a coroutine upload_file(file_path), created and not yet running
\* src: the call whose file content is posted, NoSrc before the file is opened
\* file_size: os.path.getsize(file_path), 0 before the file is looked up
NewUpload(file_path) ==
  [file_path |-> file_path, st |-> "Pending", src |-> NoSrc, file_size |-> 0,
   result |-> NoValue]

\* os.path.getsize: a file that was compressed or cut short is smaller than
\* the bytes of the answer
FileSize(f) == IF f.data = "raw" THEN 2 ELSE 1

\* a faulty variant of Gathered that goes on to the uploads as soon as one
\* download has succeeded
GatheredFirstCompleted(r) ==
  /\ ~Blocked
  /\ pc[r] = "download"
  /\ \E j \in DOMAIN download_tasks[r] : download_tasks[r][j].st = "Succeeded"
  /\ LET image_files == ScanFolder(files, file_extensions) IN
     /\ image_files # << >>
     /\ uploads' = [uploads EXCEPT ![r] =
          [j \in DOMAIN image_files |-> NewUpload(image_files[j])]]
  /\ download_tasks' = [download_tasks EXCEPT ![r] = << >>]
  /\ pc' = [pc EXCEPT ![r] = "upload"]
  /\ UNCHANGED << req, target, node_names, failed_downloads, downloaded_files,
                  ret, dirExists, files, provider >>

\* every download coroutine is over: gather returns, the results are sorted
\* into downloaded_files and failed_downloads, and get_figma_images goes on
\* to upload_folder_images("temp-images") up to the gather of the uploads
Gathered(r) ==
  /\ ~Blocked
  /\ pc[r] = "download"
  /\ \A j \in DOMAIN download_tasks[r] : Terminal(download_tasks[r][j])
  /\ LET pairs == Zip(download_tasks[r], GatherResults(download_tasks[r]))
         downloaded == CollectDownloaded(pairs, node_names[r])
         image_files == ScanFolder(files, file_extensions)
     IN  /\ download_tasks' = [download_tasks EXCEPT ![r] = << >>]
         /\ downloaded_files' = [downloaded_files EXCEPT ![r] = downloaded]
         /\ failed_downloads' = [failed_downloads EXCEPT ![r] =
                                   @ \o CollectFailed(pairs)]
         /\ IF downloaded = << >> \/ ~dirExists \/ image_files = << >>
            THEN \* nothing downloaded; or "Folder not found"; or no image file
                 /\ Return(r, Report(<< >>, << >>))
                 /\ UNCHANGED uploads
            ELSE /\ uploads' = [uploads EXCEPT ![r] =
                      [j \in DOMAIN image_files |-> NewUpload(image_files[j])]]
                 /\ pc' = [pc EXCEPT ![r] = "upload"]
                 /\ UNCHANGED ret
  /\ UNCHANGED << req, target, node_names, dirExists, files, provider >>

----------------------------------------------------------------------------
(* file_upload.py: upload_file, get_storage_provider, CustomUploader.upload *)

SetUpload(r, j, u) == uploads' = [uploads EXCEPT ![r][j] = u]

\* a faulty variant of UploadFailure in which upload_file has no except
\* clause and the exception ends the coroutine
UploadFailureRaised(u, error) ==
  [u EXCEPT !.st = "Done", !.result = Raised(error)]

\* lines 104-109, 160-162 and 214-216: the failure dict an upload ends on
UploadFailure(u, error) ==
  [u EXCEPT !.st = "Done",
            !.result = [success |-> FALSE, error |-> error,
                        file_path |-> u.file_path]]

\* a faulty variant of StartUpload in which upload_file lets the exception
\* of get_storage_provider through
StartUploadFatal(u, instance, config_ok, fs, dir) ==
  LET found == { f \in fs : f.name = u.file_path } IN
  IF instance = "None" /\ ~config_ok
  THEN << [u EXCEPT !.st = "Done", !.result = Raised("ValueError")], "None" >>
  ELSE IF found = {} \/ ~dir
  THEN << UploadFailure(u, "File does not exist"), "CustomUploader" >>
  ELSE << [u EXCEPT !.st = "Posting", !.src = (CHOOSE f \in found : TRUE).by,
                     !.file_size = FileSize(CHOOSE f \in found : TRUE)],
          "CustomUploader" >>

\* upload_file up to its await: the provider is taken (built on first use),
\* the file is looked up and opened, and the POST is sent.  The result is the
\* coroutine and the provider instance after it
StartUpload(u, instance, config_ok, fs, dir) ==
  LET found == { f \in fs : f.name = u.file_path } IN
  IF instance = "None" /\ ~config_ok
  THEN \* CustomUploader(...) raised ValueError, caught by upload_file
       << UploadFailure(u, "provider"), "None" >>
  ELSE IF found = {} \/ ~dir
  THEN << UploadFailure(u, "File does not exist"), "CustomUploader" >>
  ELSE << [u EXCEPT !.st = "Posting", !.src = (CHOOSE f \in found : TRUE).by,
                     !.file_size = FileSize(CHOOSE f \in found : TRUE)],
          "CustomUploader" >>

\* the upload coroutines one after the other, from the first on
RECURSIVE StartUploads(_, _, _, _, _)
StartUploads(us, instance, config_ok, fs, dir) ==
  IF us = << >> THEN << << >>, instance >>
  ELSE LET first == StartUpload(Head(us), instance, config_ok[1], fs, dir)
           rest == StartUploads(Tail(us), first[2], Tail(config_ok), fs, dir)
       IN  << << first[1] >> \o rest[1], rest[2] >>

\* gather has scheduled the upload coroutines: each runs up to its first
\* await, one after the other, before any other callback of the event loop
UploadStart(r) ==
  /\ ~Blocked
  /\ pc[r] = "upload"
  /\ \A j \in DOMAIN uploads[r] : uploads[r][j].st = "Pending"
  /\ \E config_ok \in [DOMAIN uploads[r] -> BOOLEAN] :
       LET after == StartUploads(uploads[r], provider, config_ok, files, dirExists)
       IN  /\ uploads' = [uploads EXCEPT ![r] = after[1]]
           /\ provider' = after[2]
  /\ UNCHANGED << pc, req, target, node_names, download_tasks,
                  failed_downloads, downloaded_files, ret, dirExists, files >>

\* the answer to client.post(upload_url, files=files)
UploadResponse(r, j) ==
  /\ ~Blocked
  /\ pc[r] = "upload"
  /\ j \in DOMAIN uploads[r]
  /\ LET u == uploads[r][j] IN
     /\ u.st = "Posting"
     /\ \E outcome \in {"ok", "error"} :
          IF outcome = "ok"
          THEN SetUpload(r, j, [u EXCEPT !.st = "Done",
                 !.result = [success |-> TRUE, file_name |-> u.file_path,
                             file_size |-> u.file_size, url |-> "url",
                             file_path |-> u.file_path]])
          ELSE SetUpload(r, j, UploadFailure(u, "upload"))
  /\ UNCHANGED << pc, req, target, node_names, download_tasks,
                  failed_downloads, downloaded_files, ret, dirExists,
                  files, provider >>

\* sum(r.get("file_size", 0) for r in results)
RECURSIVE TotalSize(_)
TotalSize(results) ==
  IF results = << >> THEN 0
  ELSE (IF "file_size" \in DOMAIN Head(results)
        THEN Head(results).file_size ELSE 0) + TotalSize(Tail(results))

\* a faulty variant of upload_multiple_files that calls a batch a success
\* when one file of it was uploaded
upload_multiple_files_any(results) ==
  LET ok(x) == x.success
      bad(x) == ~x.success
  IN  [success |-> SelectSeq(results, ok) # << >>,
       total_files |-> Len(results),
       successful_count |-> Len(SelectSeq(results, ok)),
       failed_count |-> Len(SelectSeq(results, bad)),
       successful_uploads |-> SelectSeq(results, ok),
       failed_uploads |-> SelectSeq(results, bad),
       total_size |-> TotalSize(SelectSeq(results, ok))]

\* upload_multiple_files: the result dict of a finished batch
upload_multiple_files(results) ==
  LET ok(x) == x.success
      bad(x) == ~x.success
  IN  [success |-> SelectSeq(results, bad) = << >>,
       total_files |-> Len(results),
       successful_count |-> Len(SelectSeq(results, ok)),
       failed_count |-> Len(SelectSeq(results, bad)),
       successful_uploads |-> SelectSeq(results, ok),
       failed_uploads |-> SelectSeq(results, bad),
       total_size |-> TotalSize(SelectSeq(results, ok))]

\* server.py lines 135-159: the report made of an upload result
SimplifyUploads(upload_result) ==
  Report([j \in DOMAIN upload_result.successful_uploads |->
            [name |-> upload_result.successful_uploads[j].file_name,
             url |-> upload_result.successful_uploads[j].url]],
         [j \in DOMAIN upload_result.failed_uploads |->
            [name |-> upload_result.failed_uploads[j].file_path,
             error |-> upload_result.failed_uploads[j].error]])

\* every upload coroutine is over: gather returns and the report is returned
Finish(r) ==
  /\ ~Blocked
  /\ pc[r] = "upload"
  /\ uploads[r] # << >>
  /\ \A j \in DOMAIN uploads[r] : uploads[r][j].st = "Done"
  /\ Return(r, SimplifyUploads(upload_multiple_files(
               [j \in DOMAIN uploads[r] |-> uploads[r][j].result])))
  /\ UNCHANGED << req, target, node_names, download_tasks, failed_downloads,
                  downloaded_files, uploads, dirExists, files, provider >>

\* an external interrupt abandons the call where it is suspended; what it
\* left in temp-images stays
Abandon(r) ==
  /\ ~Blocked
  /\ pc[r] \notin {"idle", "done"}
  /\ pc' = [pc EXCEPT ![r] = "idle"]
  /\ Fresh(r, NoReq)
  /\ target' = [target EXCEPT ![r] = 0]
  /\ UNCHANGED << ret, dirExists, files, provider >>

----------------------------------------------------------------------------
(* Specifications *)

\* a host with Pillow and pngquant: pngquant compresses, or finds the image
\* within the quality range already
Installed == { tool \in Tools : tool.pil_available /\
                                tool.returncode \in {"0", "99"} }

\* node ids per call when two calls run concurrently
ConcNodes == 1

\* One step of the call in slot r, in an environment E: E.nodes bounds the
\* node ids of a call, E.formats are the format arguments, E.names the
\* document names, E.clock the values of datetime.now(), E.attempts what may
\* happen to a download attempt, E.tools the tools compress_image may find
Step(r, E) ==
  \/ CallWithoutToken(r)
  \/ Call(r, E.nodes, E.formats)
  \/ ChildResponse(r, E.nodes)
  \/ NamesResponse(r, E.names)
  \/ FetchResponse(r, E.clock)
  \/ DownloadStart(r)
  \/ \E j \in 1..E.nodes : DownloadResponse(r, j, E.attempts)
  \/ \E j \in 1..E.nodes : Compress(r, j, E.tools)
  \/ \E j \in 1..E.nodes : DownloadWake(r, j)
  \/ Gathered(r)
  \/ UploadStart(r)
  \/ \E j \in 1..E.nodes : UploadResponse(r, j)
  \/ Finish(r)
  \/ Abandon(r)

\* Calls that do not overlap: one call slot, used again and again.  Every
\* call that gets past line 87 starts with an empty folder, so the values of
\* the timestamps make no difference and one value is enough.
Sequential ==
  [nodes |-> MaxNodes, formats |-> FormatArgs, names |-> RawNames,
   clock |-> {0}, attempts |-> NoWriteError, tools |-> Installed]

Next == Step(1, Sequential)

Spec == Init /\ [][Next]_vars

\* Calls that may overlap: every call slot.  The calls export PNGs of unnamed
\* nodes, so two calls write the same file when they run in the same second.
Concurrent ==
  [nodes |-> ConcNodes, formats |-> {"png"}, names |-> {},
   clock |-> Times, attempts |-> NoWriteError, tools |-> Installed]

NextConc == \E r \in Runs : Step(r, Concurrent)

SpecConc == Init /\ [][NextConc]_vars

\* download_image_from_url called on its own, with any max_retries up to
\* MaxRetriesBound, for a compressible and for a plain file
InitDL ==
  /\ pc = [r \in Runs |-> IF r = 1 THEN "download" ELSE "idle"]
  /\ req = [r \in Runs |-> NoReq]
  /\ target = [r \in Runs |-> 0]
  /\ node_names = [r \in Runs |-> << >>]
  /\ \E max_retries \in 0..MaxRetriesBound, format \in {"png", "svg"} :
       download_tasks = [r \in Runs |->
         IF r = 1
         THEN << NewDownload(1, NamedFile(<<"a">>, format), max_retries) >>
         ELSE << >>]
  /\ failed_downloads = [r \in Runs |-> << >>]
  /\ downloaded_files = [r \in Runs |-> << >>]
  /\ uploads = [r \in Runs |-> << >>]
  /\ ret = [r \in Runs |-> NoValue]
  /\ dirExists \in BOOLEAN
  /\ files = {}
  /\ provider = "None"

NextDL ==
  \/ DownloadStart(1)
  \/ DownloadResponse(1, 1, AttemptOutcomes)
  \/ Compress(1, 1, Tools)
  \/ DownloadWake(1, 1)

SpecDL == InitDL /\ [][NextDL]_vars

----------------------------------------------------------------------------
(* image_compression.py: compress_image called on its own *)

\* compress_image(image_path, quality) on a file with suffix file_format
\* whose content Pillow reads as img_format, when the tools are `tool`
compress_image_with(r, tool) ==
  /\ pc[r] = "compress"
  /\ (~tool.pil_available \/ req[r].file_format # "PNG")
       => tool.returncode = "none"
  /\ LET compression_result ==
           compress_image_result(req[r].file_format, req[r].img_format,
                                 req[r].quality, tool)
     IN  /\ Return(r, compression_result)
         /\ files' = Recompress(files, req[r].image_path, compression_result)
  /\ UNCHANGED << req, target, node_names, download_tasks, failed_downloads,
                  downloaded_files, uploads, dirExists, provider >>

\* compress_image(image_path, quality) with the tools it finds
compress_image(r) == \E tool \in Tools : compress_image_with(r, tool)

\* the file a call of compress_image is given
ImagePath(r, file_format) == << ToString(r), ".", file_format >>

\* two calls of compress_image about to run, on files and qualities of choice
InitCompress ==
  /\ pc = [r \in Runs |-> "compress"]
  /\ \E request \in [Runs -> [file_format : {"PNG", "JPG", "WEBP"},
                              img_format : {"JPEG", "WEBP", "GIF", "PNG"},
                              quality : Qualities]] :
       /\ \A r \in Runs :
            request[r].file_format = "PNG" => request[r].img_format = "PNG"
       /\ req = [r \in Runs |->
            [file_format |-> request[r].file_format,
             img_format |-> request[r].img_format,
             quality |-> request[r].quality,
             image_path |-> ImagePath(r, request[r].file_format)]]
       /\ files = { [name |-> req[r].image_path, by |-> r, node |-> r,
                     data |-> "raw"] : r \in Runs }
  /\ target = [r \in Runs |-> 0]
  /\ node_names = [r \in Runs |-> << >>]
  /\ download_tasks = [r \in Runs |-> << >>]
  /\ failed_downloads = [r \in Runs |-> << >>]
  /\ downloaded_files = [r \in Runs |-> << >>]
  /\ uploads = [r \in Runs |-> << >>]
  /\ ret = [r \in Runs |-> NoValue]
  /\ dirExists = TRUE
  /\ provider = "None"

NextCompress == \E r \in Runs : compress_image(r)

SpecCompress == InitCompress /\ [][NextCompress]_vars

----------------------------------------------------------------------------
(* file_upload.py: get_storage_provider, CustomUploader.__init__           *)

\* the configuration a call of get_storage_provider finds in os.environ:
\* STORAGE_PROVIDER, CUSTOM_SECRET_KEY, CUSTOM_UPLOAD_URL ("" when not set)
Environs ==
  [provider_name : {"custom", "s3"},
   secret_key : {"", "k1", "k2"},
   upload_url : {"", "u1", "u2"}]

\* _storage_provider_instance = None, with the number of objects built so far
NoInstance == [class |-> "None", id |-> 0]

\* the serial number of the object a construction makes after `instance`
NextId(instance) == instance.id + 1

\* lines 179-200 and CustomUploader.__init__: the instance built from the
\* environment, or the exception raised
Construct(instance, environ) ==
  IF environ.provider_name # "custom" THEN Raised("ValueError")
  ELSE IF environ.secret_key = "" \/ environ.upload_url = ""
  THEN Raised("ValueError")
  ELSE [class |-> "CustomUploader", id |-> NextId(instance),
        secret_key |-> environ.secret_key, base_url |-> environ.upload_url]

\* a faulty variant of Lookup that builds a provider on every call
LookupUncached(instance, environ) == Construct(instance, environ)

\* lines 177-201: what get_storage_provider returns (or raises) when the
\* module-level instance is `instance`
Lookup(instance, environ) ==
  IF instance.class = "None" THEN Construct(instance, environ) ELSE instance

\* one call of get_storage_provider by the task in slot r; it has no await,
\* so it runs from start to end without any other task in between
get_storage_provider(r) ==
  /\ pc[r] \in {"idle", "done"}
  /\ \E environ \in Environs :
       LET got == Lookup(provider, environ) IN
       /\ req' = [req EXCEPT ![r] = environ]
       /\ Return(r, got)
       /\ provider' = IF IsException(got) THEN provider ELSE got
  /\ UNCHANGED << target, node_names, download_tasks, failed_downloads,
                  downloaded_files, uploads, dirExists, files >>

\* a process in which get_storage_provider has not been called
InitProvider ==
  /\ pc = [r \in Runs |-> "idle"]
  /\ req = [r \in Runs |-> NoReq]
  /\ target = [r \in Runs |-> 0]
  /\ node_names = [r \in Runs |-> << >>]
  /\ download_tasks = [r \in Runs |-> << >>]
  /\ failed_downloads = [r \in Runs |-> << >>]
  /\ downloaded_files = [r \in Runs |-> << >>]
  /\ uploads = [r \in Runs |-> << >>]
  /\ ret = [r \in Runs |-> NoValue]
  /\ dirExists = FALSE
  /\ files = {}
  /\ provider = NoInstance

NextProvider == \E r \in Runs : get_storage_provider(r)

SpecProvider == InitProvider /\ [][NextProvider]_vars

----------------------------------------------------------------------------
(* file_upload.py: CustomUploader._parse_response and upload after its POST *)

\* Python's None; a key that a dict does not have
None == "None"
Absent == "absent"

\* the "data" field of a response: a string (the URL itself, possibly empty),
\* an object with or without "url", a number, or no such field
DataFields ==
  { [type |-> "str", url |-> "https"], [type |-> "str", url |-> ""],
    [type |-> "dict", url |-> "https"], [type |-> "dict", url |-> None],
    [type |-> "int", url |-> None], [type |-> Absent, url |-> None] }

\* the JSON objects a server may answer with
Bodies ==
  [code : {Absent, "0", "1"}, success : {Absent, "true", "false"},
   data : DataFields, url : {None, "https"}, message : {Absent, "", "error"}]

EmptyBody ==
  [code |-> Absent, success |-> Absent,
   data |-> [type |-> Absent, url |-> None], url |-> None, message |-> Absent]

\* the answers to client.post: a status, and what response.json() gives
Responses ==
  { [status_code |-> "200", json |-> "dict", body |-> b] : b \in Bodies }
    \cup { [status_code |-> s, json |-> j, body |-> EmptyBody] :
             s \in {"200", "500"}, j \in {"list", "invalid"} }

\* the truth value Python gives a string or None
Truthy(x) == x \notin {None, ""}

\* a faulty variant of parse_response that takes "data" only when it is a
\* string and otherwise falls back to the top-level "url"
parse_response_string_only(response_data) ==
  IF response_data.code = "0" \/ response_data.success = "true"
  THEN IF response_data.data.type = "str"
       THEN << response_data.data.url, None >>
       ELSE << response_data.url, None >>
  ELSE << None, IF response_data.message = Absent
                THEN "Unknown server error" ELSE response_data.message >>

\* _parse_response: << file_url, error_msg >>
parse_response(response_data) ==
  IF response_data.code = "0" \/ response_data.success = "true"
  THEN IF response_data.data.type = "str"
       THEN << response_data.data.url, None >>
       ELSE IF response_data.data.type = "dict"
       THEN << response_data.data.url, None >>
       ELSE << response_data.url, None >>
  ELSE << None, IF response_data.message = Absent
                THEN "Unknown server error" ELSE response_data.message >>

\* lines 128-162: the result of upload(file_path) for an answer to its POST
UploadResult(response, file_path) ==
  IF response.status_code # "200"
  THEN [success |-> FALSE, error |-> "HTTP error", file_path |-> file_path]
  ELSE IF response.json = "invalid"
  THEN \* response.json() raised: except Exception
       [success |-> FALSE, error |-> "exception", file_path |-> file_path]
  ELSE IF response.json # "dict"
  THEN [success |-> FALSE, error |-> "non-JSON response", file_path |-> file_path]
  ELSE LET parsed == parse_response(response.body) IN
       IF Truthy(parsed[2])
       THEN [success |-> FALSE, error |-> parsed[2], file_path |-> file_path]
       ELSE [success |-> TRUE, file_name |-> file_path, url |-> parsed[1],
             file_path |-> file_path]

\* the answer to client.post arrives in the call upload(file_path) of slot r
upload(r) ==
  /\ pc[r] = "post"
  /\ Return(r, UploadResult(req[r], << "a", ".", "png" >>))
  /\ UNCHANGED << req, target, node_names, download_tasks, failed_downloads,
                  downloaded_files, uploads, dirExists, files, provider >>

\* a call of upload that has sent its POST, and the answer on its way
InitUpload ==
  /\ pc = [r \in Runs |-> IF r = 1 THEN "post" ELSE "idle"]
  /\ req \in [Runs -> Responses \cup {NoReq}]
  /\ req[1] \in Responses /\ req[2] = NoReq
  /\ target = [r \in Runs |-> 0]
  /\ node_names = [r \in Runs |-> << >>]
  /\ download_tasks = [r \in Runs |-> << >>]
  /\ failed_downloads = [r \in Runs |-> << >>]
  /\ downloaded_files = [r \in Runs |-> << >>]
  /\ uploads = [r \in Runs |-> << >>]
  /\ ret = [r \in Runs |-> NoValue]
  /\ dirExists = TRUE
  /\ files = {}
  /\ provider = "CustomUploader"

NextUpload == upload(1)

SpecUpload == InitUpload /\ [][NextUpload]_vars

----------------------------------------------------------------------------
(* file_upload.py: upload_folder_images called on its own                  *)

\* a faulty variant of NoImageFiles that reports the empty folder as a failure
NoImageFilesError == [success |-> FALSE, error |-> "No image files found"]

\* lines 268-274: what upload_folder_images returns when no file qualifies
NoImageFiles ==
  [success |-> TRUE, message |-> "No image files found in folder",
   total_files |-> 0, successful_uploads |-> << >>]

\* lines 257-277: upload_folder_images(folder_path) up to the gather of
\* upload_multiple_files
upload_folder_images(r) ==
  /\ ~Blocked
  /\ pc[r] = "scan"
  /\ LET image_files == ScanFolder(files, file_extensions) IN
     IF ~dirExists
     THEN /\ Return(r, Failure("Folder not found"))
          /\ UNCHANGED uploads
     ELSE IF image_files = << >>
     THEN /\ Return(r, NoImageFiles)
          /\ UNCHANGED uploads
     ELSE /\ uploads' = [uploads EXCEPT ![r] =
               [j \in DOMAIN image_files |-> NewUpload(image_files[j])]]
          /\ pc' = [pc EXCEPT ![r] = "upload"]
          /\ UNCHANGED ret
  /\ UNCHANGED << req, target, node_names, download_tasks, failed_downloads,
                  downloaded_files, dirExists, files, provider >>

\* lines 227-245: every upload coroutine is over, gather returns, and
\* upload_multiple_files returns its result dict through upload_folder_images
upload_folder_images_return(r) ==
  /\ ~Blocked
  /\ pc[r] = "upload"
  /\ uploads[r] # << >>
  /\ \A j \in DOMAIN uploads[r] : uploads[r][j].st = "Done"
  /\ Return(r, upload_multiple_files(
               [j \in DOMAIN uploads[r] |-> uploads[r][j].result]))
  /\ UNCHANGED << req, target, node_names, download_tasks, failed_downloads,
                  downloaded_files, uploads, dirExists, files, provider >>

\* the names of the files a folder may hold when it is scanned
FolderNames == { <<"a", ".", "png">>, <<"b", ".", "jpg">>,
                 <<"c", ".", "pdf">>, <<"d", ".", "txt">> }

\* upload_folder_images about to run in slot 1 on a folder an earlier call
\* left, with files written in full or cut short, or on no folder, before or
\* after a provider was built
InitFolder ==
  /\ pc = [r \in Runs |-> IF r = 1 THEN "scan" ELSE "idle"]
  /\ req = [r \in Runs |-> NoReq]
  /\ target = [r \in Runs |-> 0]
  /\ node_names = [r \in Runs |-> << >>]
  /\ download_tasks = [r \in Runs |-> << >>]
  /\ failed_downloads = [r \in Runs |-> << >>]
  /\ downloaded_files = [r \in Runs |-> << >>]
  /\ uploads = [r \in Runs |-> << >>]
  /\ ret = [r \in Runs |-> NoValue]
  /\ dirExists \in BOOLEAN
  /\ \E names \in SUBSET FolderNames :
       \E data \in [names -> {"raw", "partial"}] :
         /\ ~dirExists => names = {}
         /\ files = { [name |-> n, by |-> 0, node |-> 0, data |-> data[n]] :
                      n \in names }
  /\ provider \in {"None", "CustomUploader"}

\* the upload of the folder, while a call of get_figma_images in slot 2 may
\* start and clear the folder
NextFolder ==
  \/ upload_folder_images(1)
  \/ UploadStart(1)
  \/ \E j \in 1..Cardinality(FolderNames) : UploadResponse(1, j)
  \/ upload_folder_images_return(1)
  \/ Call(2, 0, {"png"})

SpecFolder == InitFolder /\ [][NextFolder]_vars

----------------------------------------------------------------------------
(* Properties *)

\* the call in slot r has returned a value (it did not raise)
Returned(r) == pc[r] = "done" /\ ~IsException(ret[r])

\* {successful_uploads: [...], failed_uploads: [...]}
IsReport(v) == {"successful_uploads", "failed_uploads"} \subseteq DOMAIN v

\* the call in slot r has returned its final report
Reported(r) == pc[r] = "done" /\ IsReport(ret[r])

\* the node ids of the image-URL response whose URL was empty
EmptyUrlNodes(r) ==
  { e.node_id : e \in { x \in Range(failed_downloads[r]) : x.error = "empty url" } }

\* a report entry names node n when its name is a filename the loop gives n
Names(r, entry, n) ==
  \E timestamp \in Times :
    entry.name = ChooseFilename(node_names[r], n, timestamp, n - 1, req[r].format)

\* the positions of the entries of list that name node n
EntriesFor(r, list, n) == { j \in DOMAIN list : Names(r, list[j], n) }

\* C1: every value get_figma_images returns, on every path, is a report with
\* a successful_uploads list and a failed_uploads list.
C1_EveryReturnIsReport ==
  \A r \in Runs : Returned(r) => IsReport(ret[r])

\* C2: when a call returns its final report, every node id of the image-URL
\* response has exactly one entry in the report, in successful_uploads or in
\* failed_uploads; a node whose download failed is in failed_uploads.
C2_EveryNodeInReport ==
  \A r \in Runs : Reported(r) =>
    \A n \in 1..target[r] :
      /\ Cardinality(EntriesFor(r, ret[r].successful_uploads, n))
           + Cardinality(EntriesFor(r, ret[r].failed_uploads, n)) = 1
      /\ (\E e \in Range(failed_downloads[r]) : e.node_id = n)
           => EntriesFor(r, ret[r].failed_uploads, n) # {}

\* C3: no download is attempted for a node whose URL came back empty, the
\* final report has exactly one failed_uploads entry for each such node, and
\* one successful_uploads entry for each node that downloaded and uploaded.
C3_EmptyUrlNodeReported ==
  \A r \in Runs :
    /\ \A j \in DOMAIN download_tasks[r] :
         download_tasks[r][j].node_id \notin EmptyUrlNodes(r)
    /\ Reported(r) =>
         /\ \A n \in EmptyUrlNodes(r) :
              Cardinality(EntriesFor(r, ret[r].failed_uploads, n)) = 1
         /\ (\A j \in DOMAIN uploads[r] : uploads[r][j].result.success) =>
              \A d \in Range(downloaded_files[r]) :
                Cardinality(EntriesFor(r, ret[r].successful_uploads, d.node_id)) = 1

\* the call in slot r is suspended at an await
Active(r) == pc[r] \notin {"idle", "done"}

\* every file whose content the call in slot r has posted is a file that
\* this call wrote
UploadsOwnFiles(r) ==
  \A j \in DOMAIN uploads[r] :
    uploads[r][j].src # NoSrc => uploads[r][j].src = r

\* upload_folder_images can list the file (its extension is one it globs)
Uploadable(filename) == Suffix(filename) \in Range(file_extensions)

\* the upload coroutine u of the call in slot r found the call's own file, or
\* has not looked for it (not started, or stopped for want of a provider)
FoundOwnFile(u, r) ==
  \/ u.st = "Pending"
  \/ u.src = r
  \/ u.st = "Done" /\ ~u.result.success /\ u.result.error = "provider"

\* every file the call in slot r downloaded was still its own when the call
\* listed the folder and when it opened the file for upload
KeepsOwnFiles(r) ==
  (pc[r] = "upload" \/ Reported(r)) =>
    \A d \in Range(downloaded_files[r]) :
      Uploadable(d.filename) =>
        \E j \in DOMAIN uploads[r] :
          /\ uploads[r][j].file_path = d.filename
          /\ FoundOwnFile(uploads[r][j], r)

\* C4: under every interleaving of two calls, no call uploads a file that
\* another call downloaded and no call loses a file it downloaded before its
\* own upload stage.
C4_NoCrossRunStaging ==
  \A r \in Runs : UploadsOwnFiles(r) /\ KeepsOwnFiles(r)

\* C5: in a sequence of calls that do not overlap, the folder is cleared at
\* the start of each call: while a call is under way every file in the folder
\* was written by this call, and every file it uploads is one it wrote; a
\* file left by an earlier call is never uploaded.
C5_NoStaleUpload ==
  /\ Active(1) => \A f \in files : f.by = 1
  /\ UploadsOwnFiles(1)

\* a later call is about to upload after an earlier call built the provider
\* for its own uploads, whose files it left in the folder
C5_Witness ==
  /\ pc[1] = "upload"
  /\ provider = "CustomUploader"
  /\ \A j \in DOMAIN uploads[1] : uploads[1][j].st = "Pending"

FailedTasks(tasks) == { j \in DOMAIN tasks : tasks[j].st \in {"Exhausted", "Raised"} }

\* after gather, each entry of the two lists carries the node id of the
\* coroutine that produced it: failed entries beyond the first E come from
\* failed coroutines, downloaded entries from succeeded ones with their file
Paired(tasks, downloaded, failed, E) ==
  /\ \A i \in DOMAIN downloaded :
       \E j \in DOMAIN tasks :
         /\ tasks[j].node_id = downloaded[i].node_id
         /\ tasks[j].st = "Succeeded"
         /\ tasks[j].filename = downloaded[i].filename
  /\ \A i \in DOMAIN failed :
       i > E => \E j \in FailedTasks(tasks) : tasks[j].node_id = failed[i].node_id

\* C6 as stated: when gather returns for N download coroutines of which K
\* failed (returned a failure or raised), downloaded_files has N-K entries
\* and failed_downloads has K entries, each with the node id of its coroutine.
C6_CountsAsStated ==
  [][\A r \in Runs : Gathered(r) =>
       LET N == Len(download_tasks[r])
           K == Cardinality(FailedTasks(download_tasks[r]))
       IN  /\ Len(downloaded_files'[r]) = N - K
           /\ Len(failed_downloads'[r]) = K]_vars

\* C6 amended: downloaded_files has N-K entries; failed_downloads has K
\* entries after the E entries of the nodes whose URL was empty; every entry
\* carries the node id of the coroutine that produced it, whatever the order
\* in which the coroutines ended.
C6_Counts ==
  [][\A r \in Runs : Gathered(r) =>
       LET N == Len(download_tasks[r])
           K == Cardinality(FailedTasks(download_tasks[r]))
           E == Len(failed_downloads[r])
       IN  /\ Len(downloaded_files'[r]) = N - K
           /\ Len(failed_downloads'[r]) = K + E
           /\ SubSeq(failed_downloads'[r], 1, E) = failed_downloads[r]
           /\ Paired(download_tasks[r], downloaded_files'[r],
                     failed_downloads'[r], E)]_vars

\* gather has returned for two coroutines: one failed, its sibling succeeded
C6_Witness ==
  /\ pc[1] \in {"upload", "done"}
  /\ Len(downloaded_files[1]) = 1
  /\ \E e \in Range(failed_downloads[1]) : e.error # "empty url"

\* the delays 1, 2, 4, ... of the first n retries
Backoff(n) == [i \in 1..n |-> Pow2(i - 1)]

\* C7: a download that failed on every attempt made exactly max_retries+1
\* requests, slept 2^attempt before each retry (1, 2, 4, ..., strictly
\* increasing), did not sleep after the last attempt, and returned a failure.
C7_RetrySchedule ==
  \A j \in DOMAIN download_tasks[1] :
    LET t == download_tasks[1][j] IN
    t.st = "Exhausted" =>
      /\ t.requests = t.max_retries + 1
      /\ t.sleeps = Backoff(t.max_retries)
      /\ \A a, b \in DOMAIN t.sleeps : a < b => t.sleeps[a] < t.sleeps[b]
      /\ t.result = Failure(t.result.error)

\* the default budget is used up by non-200 answers: 4 requests, 3 sleeps
C7_Witness ==
  \E j \in DOMAIN download_tasks[1] :
    LET t == download_tasks[1][j] IN
    /\ t.st = "Exhausted"
    /\ t.max_retries = DEFAULT_MAX_RETRIES
    /\ t.result.error = "status"
    /\ t.requests = 4
    /\ t.sleeps = << 1, 2, 4 >>

\* C8: download_image_from_url never raises, whatever happens to its
\* attempts, to the creation of the directory or to the write of the file.
C8_NeverRaises ==
  \A r \in Runs : \A j \in DOMAIN download_tasks[r] :
    ~IsException(download_tasks[r][j].result)

\* C9: the filenames given to the download coroutines of one call are
\* pairwise distinct.
C9_FilenamesDistinct ==
  \A r \in Runs : \A i, j \in DOMAIN download_tasks[r] :
    i # j => download_tasks[r][i].filename # download_tasks[r][j].filename

\* the members of a list are pairwise different under the key
Distinct(list, Key(_)) ==
  \A i, j \in DOMAIN list : i # j => Key(list[i]) # Key(list[j])

\* C10: in one call, every node id of the image-URL response has at most one
\* download coroutine, at most one downloaded_files entry, and its file at
\* most one upload attempt.
C10_AtMostOnce ==
  \A r \in Runs :
    LET node(x) == x.node_id
        path(x) == x.file_path
    IN  /\ Distinct(download_tasks[r], node)
        /\ Distinct(downloaded_files[r], node)
        /\ Distinct(failed_downloads[r], node)
        /\ Distinct(uploads[r], path)
        /\ \A d \in Range(downloaded_files[r]) :
             Cardinality({ j \in DOMAIN uploads[r] :
                             uploads[r][j].file_path = d.filename }) <= 1

\* two nodes were downloaded and both files are being uploaded
C10_Witness ==
  /\ pc[1] = "upload"
  /\ Len(downloaded_files[1]) = 2
  /\ Len(uploads[1]) = 2
  /\ \A j \in DOMAIN uploads[1] : uploads[1][j].st = "Posting"

\* the filenames of the files the call in slot r downloaded
DownloadedNames(r) == { d.filename : d \in Range(downloaded_files[r]) }

\* the paths the call in slot r gave to upload_file
UploadPaths(r) == { uploads[r][j].file_path : j \in DOMAIN uploads[r] }

\* C11: whatever the accepted format (jpg, png, svg, pdf), once the download
\* stage is over the files given to the upload provider are exactly the files
\* recorded as downloaded, and each ends in one list of the report.
C11_DownloadedAreUploaded ==
  \A r \in Runs :
    /\ (pc[r] = "upload" \/ Reported(r)) => UploadPaths(r) = DownloadedNames(r)
    /\ Reported(r) =>
         DownloadedNames(r) =
           { e.name : e \in Range(ret[r].successful_uploads) }
             \cup { e.name : e \in Range(ret[r].failed_uploads) }

\* the request of get_figma_images_data for the call in slot r is awaited, or
\* has been answered with the image URLs
ImageQuerySent(r) == pc[r] \in {"fetch", "download", "upload"} \/ Reported(r)

\* C12: get_figma_images_data checks format against {jpg, png, svg, pdf} and
\* scale against [0.01, 4.0] before its request: the request is sent only
\* for arguments that pass, and a call with an argument that does not pass
\* returns a failure.
C12_ValidatedBeforeRequest ==
  \A r \in Runs :
    LET passes == req[r].format \in {"jpg", "png", "svg", "pdf"} /\ req[r].scale_ok
    IN  /\ ImageQuerySent(r) => passes
        /\ (Returned(r) /\ ~passes) =>
             /\ "success" \in DOMAIN ret[r]
             /\ ~ret[r].success

\* a call with format "gif" and a valid scale, and one with a valid format and
\* a scale out of range, ended with the validation failure
C12_Witness ==
  \/ /\ pc[1] = "done" /\ req[1].format = "gif" /\ req[1].scale_ok
     /\ ret[1] = Failure("format")
  \/ /\ pc[1] = "done" /\ req[1].format = "png" /\ ~req[1].scale_ok
     /\ ret[1] = Failure("scale")

\* the call of compress_image in slot r is over, for a quality in [0, 1]
Compressed(r) ==
  /\ pc[r] = "done"
  /\ req[r].quality \in 0..QualitySteps

\* C13: for every quality in [0, 1] the range [min, max] that
\* compress_png_with_pngquant gives pngquant has min <= max, min in 5..85,
\* max in 20..95 and max >= min + 10.
C13_QuantizerRange ==
  \A r \in Runs :
    (Compressed(r) /\ "quality_range" \in DOMAIN ret[r]) =>
      LET lo == ret[r].quality_range[1]
          hi == ret[r].quality_range[2]
      IN  /\ lo <= hi
          /\ lo \in 5..85
          /\ hi \in 20..95
          /\ hi >= lo + 10

\* pngquant ran at quality 1 with the range 85-95, and at quality 0 with 5-20
C13_Witness ==
  /\ pc[1] = "done" /\ req[1].quality = QualitySteps
  /\ ret[1] = [success |-> TRUE, compression_method |-> "pngquant",
               quality_range |-> << 85, 95 >>]
  /\ pc[2] = "done" /\ req[2].quality = 0
  /\ "quality_range" \in DOMAIN ret[2] /\ ret[2].quality_range = << 5, 20 >>

\* round(n / d) for n >= 0 and d > 0, a tie going to the even neighbour
Round(n, d) ==
  LET below == n \div d
      twice == 2 * (n % d)
  IN  IF twice < d THEN below
      ELSE IF twice > d THEN below + 1
      ELSE IF below % 2 = 0 THEN below ELSE below + 1

\* the call of compress_image in slot r saved a JPEG or a WEBP file, for a
\* quality in [0, 1]
Encoded(r) ==
  /\ Compressed(r)
  /\ "quality" \in DOMAIN ret[r]
  /\ ret[r].format \in {"JPEG", "WEBP"}

\* C14 as stated: the encoder quality compress_image uses for JPEG and WEBP
\* files is round(1 + 99 q).
C14_EncoderQualityRounded ==
  \A r \in Runs :
    Encoded(r) =>
      ret[r].quality = Round(QualitySteps + 99 * req[r].quality, QualitySteps)

\* C14 amended: the encoder quality compress_image uses for JPEG and WEBP
\* files is 1 + 99 q cut to its integer part (the largest integer not above
\* it), so it is never above round(1 + 99 q) and at most 1 below it.
C14_EncoderQualityTruncated ==
  \A r \in Runs :
    Encoded(r) =>
      LET n == QualitySteps + 99 * req[r].quality
          rounded == Round(n, QualitySteps)
      IN  /\ ret[r].quality * QualitySteps <= n
          /\ (ret[r].quality + 1) * QualitySteps > n
          /\ ret[r].quality \in {rounded - 1, rounded}

\* a JPEG saved at a quality whose 1 + 99 q rounds up, so the encoder gets
\* one less than round(1 + 99 q); a WEBP saved at quality 1, where both agree
C14_Witness ==
  /\ Encoded(1) /\ ret[1].format = "JPEG"
  /\ ret[1].quality + 1 =
       Round(QualitySteps + 99 * req[1].quality, QualitySteps)
  /\ Encoded(2) /\ ret[2].format = "WEBP"
  /\ req[2].quality = QualitySteps
  /\ ret[2].quality = 100

\* C15: for every quality in [0, 1] the encoder quality compress_image uses
\* for JPEG and WEBP files is in 1..100, is 1 at quality 0 and 100 at quality
\* 1, and does not decrease when the quality grows.
C15_EncoderQualityMonotone ==
  /\ \A r \in Runs :
       Encoded(r) =>
         /\ ret[r].quality \in 1..100
         /\ req[r].quality = 0 => ret[r].quality = 1
         /\ req[r].quality = QualitySteps => ret[r].quality = 100
  /\ \A r, s \in Runs :
       (Encoded(r) /\ Encoded(s) /\ req[r].quality <= req[s].quality)
         => ret[r].quality <= ret[s].quality

\* two files were saved, one at quality 0 and one at quality 1
C15_Witness ==
  /\ Encoded(1) /\ req[1].quality = 0 /\ ret[1].quality = 1
  /\ Encoded(2) /\ req[2].quality = QualitySteps /\ ret[2].quality = 100

\* what upload_file returns for file_path when get_storage_provider raised
ProviderFailure(file_path) ==
  [success |-> FALSE, error |-> "provider", file_path |-> file_path]

\* the upload coroutines of the call in slot r that ended on a failure to
\* construct the provider
ProviderFailed(r) ==
  { j \in DOMAIN uploads[r] :
      uploads[r][j].result = ProviderFailure(uploads[r][j].file_path) }

\* C17 as stated: a failure to construct the provider is fatal: after one
\* failure in a batch, construction is not attempted for the remaining
\* files, and the error leaves the upload call instead of a report.
C17_ConstructionFailureFatal ==
  \A r \in Runs :
    ProviderFailed(r) # {} =>
      /\ Cardinality(ProviderFailed(r)) = 1
      /\ \A j \in DOMAIN uploads[r] :
           j \notin ProviderFailed(r) => uploads[r][j].st = "Pending"
      /\ ~Reported(r)

\* C17 amended: a failure to construct the provider is caught by upload_file
\* and becomes the failed result of that file; no instance is kept, so each
\* remaining file of the batch attempts the construction again (as long as
\* no instance exists every file so far has such a failure, and a file after
\* a successful construction has none); the call ends with its report, one
\* failed_uploads entry per such file.
C17_ConstructionFailurePerFile ==
  /\ [](\A r \in Runs :
          /\ \A j \in DOMAIN uploads[r] : ~IsException(uploads[r][j].result)
          /\ (pc[r] = "done" /\ uploads[r] # << >>) =>
               /\ IsReport(ret[r])
               /\ \A j \in ProviderFailed(r) :
                    \E e \in Range(ret[r].failed_uploads) :
                      /\ e.name = uploads[r][j].file_path
                      /\ e.error = "provider")
  /\ [][\A r \in Runs : UploadStart(r) =>
          /\ provider' = "None" =>
               ProviderFailed(r)' = DOMAIN uploads[r]
          /\ \A i, j \in DOMAIN uploads[r] :
               (i < j /\ j \in ProviderFailed(r)') => i \in ProviderFailed(r)'
          /\ provider # "None" => ProviderFailed(r)' = {}]_vars

\* both files of a batch failed on the construction of the provider and the
\* call returned its report with the two failures
C17_Witness ==
  /\ Reported(1)
  /\ Len(uploads[1]) = 2
  /\ ProviderFailed(1) = {1, 2}
  /\ Len(ret[1].failed_uploads) = 2
  /\ ret[1].successful_uploads = << >>

\* the call of get_storage_provider in slot r returned an instance
GotProvider(r) == pc[r] = "done" /\ ~IsException(ret[r])

\* C18: the provider is constructed at most once per process and reused:
\* once get_storage_provider has succeeded the module-level instance never
\* changes, and every call that returns, whichever task makes it and
\* whatever the environment has become, returns that instance with the
\* configuration it was built with.
C18_ProviderSingleton ==
  /\ [][provider.class # "None" => provider' = provider]_vars
  /\ [](\A r \in Runs : GotProvider(r) => ret[r] = provider /\ ret[r].id = 1)

\* both tasks hold the instance built from (k1, u1); the second asked when
\* the environment named another provider and another key
C18_Witness ==
  /\ GotProvider(1) /\ GotProvider(2)
  /\ ret[1] = ret[2]
  /\ ret[1].secret_key = "k1" /\ req[1].secret_key = "k1"
  /\ req[2].provider_name = "s3" /\ req[2].secret_key = "k2"

\* upload has returned in slot r for an HTTP-200 answer that is a JSON object
Answered(r) ==
  /\ pc[r] = "done"
  /\ req[r].status_code = "200" /\ req[r].json = "dict"

\* the answer carries code 0 or success true
Flagged(body) == body.code = "0" \/ body.success = "true"

\* upload returned success with this URL
SucceededWith(r, url) ==
  /\ ret[r].success
  /\ ret[r].url = url

\* for a flagged answer: a string "data" is the URL, an object "data" gives
\* its "url"
DataShapesAccepted(r) ==
  LET body == req[r].body IN
  (Answered(r) /\ Flagged(body)) =>
    /\ (body.data.type = "str" /\ body.data.url = "https")
         => SucceededWith(r, "https")
    /\ (body.data.type = "dict" /\ body.data.url = "https")
         => SucceededWith(r, "https")

C20_SuccessHasUrl ==
  \A r \in Runs :
    (pc[r] = "done" /\ ret[r].success) => ret[r].url = "https"

\* the upload coroutines of the call in slot r that returned a failure
FailedUploads(r) ==
  { j \in DOMAIN uploads[r] :
      uploads[r][j].st = "Done" /\ ~IsException(uploads[r][j].result)
        /\ ~uploads[r][j].result.success }

\* C21: no upload of a batch ends on an exception: an upload that fails
\* (provider, transport, missing file) ends on a failure value with its
\* file_path and an error; it changes no other upload of the batch; and
\* upload_multiple_files returns when every upload is over, with one entry
\* per file, the failed ones in failed_uploads in the order of the batch.
C21_PerFileFailureContained ==
  /\ [](\A r \in Runs :
          /\ \A j \in DOMAIN uploads[r] :
               /\ ~IsException(uploads[r][j].result)
               /\ j \in FailedUploads(r) =>
                    /\ uploads[r][j].result.file_path = uploads[r][j].file_path
                    /\ uploads[r][j].result.error
                         \in {"provider", "upload", "File does not exist"}
          /\ (pc[r] = "done" /\ uploads[r] # << >>) =>
               /\ ~IsException(ret[r])
               /\ \A j \in DOMAIN uploads[r] : uploads[r][j].st = "Done"
               /\ Len(ret[r].successful_uploads) + Len(ret[r].failed_uploads)
                    = Len(uploads[r])
               /\ ret[r].failed_uploads =
                    [k \in 1..Cardinality(FailedUploads(r)) |->
                       uploads[r][CHOOSE j \in FailedUploads(r) :
                         Cardinality({i \in FailedUploads(r) : i <= j}) = k]
                         .result])
  /\ [][\A r \in Runs : \A i, j \in DOMAIN uploads[r] :
          (/\ i # j
           /\ DOMAIN uploads'[r] = DOMAIN uploads[r]
           /\ uploads[r][i].st = "Posting"
           /\ j \notin FailedUploads(r)
           /\ j \in FailedUploads(r)')
            => uploads'[r][i] = uploads[r][i]]_vars

\* a batch of two ended with the first file failed in transport and the
\* second one uploaded
C21_Witness ==
  /\ pc[1] = "done"
  /\ Len(uploads[1]) = 2
  /\ FailedUploads(1) = {1}
  /\ uploads[1][1].result.error = "upload"
  /\ Len(ret[1].failed_uploads) = 1
  /\ Len(ret[1].successful_uploads) = 1

\* a batch ended with a file failed because it was gone when its upload
\* started
C21_MissingFile ==
  /\ pc[1] = "done"
  /\ \E j \in FailedUploads(1) :
       uploads[1][j].result.error = "File does not exist"

\* the folder exists and holds no file with a qualifying image extension
NothingToUpload ==
  dirExists /\ \A f \in files : Suffix(f.name) \notin Range(file_extensions)

\* C22: upload_folder_images on an existing folder without a qualifying
\* image file returns at once with success true, an empty successful_uploads
\* list and no error; it creates no upload and leaves the provider as it
\* was; and once it has returned without an upload, none is made.
C22_EmptyFolderIsSuccess ==
  /\ [][\A r \in Runs :
          (pc[r] = "scan" /\ pc'[r] # "scan" /\ NothingToUpload) =>
            /\ pc'[r] = "done"
            /\ ret'[r].success
            /\ ret'[r].successful_uploads = << >>
            /\ ret'[r].total_files = 0
            /\ "error" \notin DOMAIN ret'[r]
            /\ uploads'[r] = << >>
            /\ provider' = provider]_vars
  /\ [][(pc[1] = "done" /\ uploads[1] = << >>) =>
          (uploads'[1] = << >> /\ provider' = provider)]_vars

\* the call returned from a folder that holds files, none of them an image,
\* and no provider exists
C22_Witness ==
  /\ pc[1] = "done"
  /\ NothingToUpload
  /\ files # {}
  /\ ret[1].success
  /\ ret[1].successful_uploads = << >>
  /\ uploads[1] = << >>
  /\ provider = "None"

\* the call in slot r ended on "no children to export"
NoChildren(r) == pc[r] = "done" /\ ret[r] = Failure("no children")

\* C23: the child query is the first request of a call that exports
\* children; its answer either names one target at least, and the name query
\* follows, or ends the call in the same step with a failure; a call that
\* ended on "no children to export" came straight from the child query, and
\* has no target, no node name, no download task, no file and no upload.
C23_NoChildrenFailsAtOnce ==
  /\ [](\A r \in Runs :
          NoChildren(r) =>
            /\ target[r] = 0
            /\ node_names[r] = << >>
            /\ download_tasks[r] = << >>
            /\ downloaded_files[r] = << >>
            /\ failed_downloads[r] = << >>
            /\ uploads[r] = << >>
            /\ \A f \in files : f.by # r)
  /\ [][\A r \in Runs :
          /\ (pc[r] # "children" /\ pc'[r] = "children")
               => (pc[r] \in {"idle", "done"} /\ target'[r] = 0)
          /\ (pc[r] = "children" /\ pc'[r] \notin {"children", "idle"}) =>
               \/ pc'[r] = "names" /\ target'[r] > 0
               \/ /\ pc'[r] = "done"
                  /\ ~ret'[r].success
                  /\ files' = files
                  /\ download_tasks'[r] = << >>
                  /\ uploads'[r] = << >>
          /\ (pc[r] # "done" /\ NoChildren(r)') => pc[r] = "children"]_vars

\* a call that exports children ended on "no children to export"
C23_Witness == NoChildren(1) /\ req[1] # NoReq

\* C24: while a download coroutine is inside compress_image, every other
\* download coroutine of the batch can take its next step: one that awaits
\* the answer to its request can receive it, one that sleeps before a retry
\* can wake up.
C24_SiblingsProgressWhileCompressing ==
  \A r \in Runs : \A i, j \in DOMAIN download_tasks[r] :
    (i # j /\ download_tasks[r][j].st = "Compressing") =>
      /\ download_tasks[r][i].st = "Attempting"
           => ENABLED DownloadResponse(r, i, AttemptOutcomes)
      /\ download_tasks[r][i].st = "Retrying"
           => ENABLED DownloadWake(r, i)

\* the download coroutine j of the call in slot r is inside compress_image
InCompressor(r, j) ==
  j \in DOMAIN download_tasks[r] /\ download_tasks[r][j].st = "Compressing"

Image(r) == CHOOSE f \in files : f.name = req[r].image_path

\* C26: compress_image on a file with the suffix PNG, with Pillow present
\* and pngquant not installed, returns the failure "pngquant not found" and
\* changes no file; and whatever tools it finds, a PNG file is either
\* rewritten by pngquant, with a result that says so, or left as it was with
\* a failure: Pillow never saves it.
C26_PngOnlyByQuantizer ==
  /\ [](\A r \in Runs :
          (pc[r] = "done" /\ req[r].file_format = "PNG") =>
            IF ret[r].success
            THEN /\ ret[r].compression_method = "pngquant"
                 /\ Image(r).data = "pngquant"
            ELSE /\ Image(r).data = "raw"
                 /\ ret[r].error \in
                      {"Pillow not installed", "pngquant not found",
                       "quality already good", "pngquant failed",
                       "pngquant timed out"})
  /\ [][\A r \in Runs :
          (/\ req[r].file_format = "PNG"
           /\ compress_image_with(r, [pil_available |-> TRUE,
                                      returncode |-> "none"]))
            => /\ ret'[r] = Failure("pngquant not found")
               /\ files' = files]_vars

\* compress_image returned "pngquant not found" for a PNG file, which is as
\* it was
C26_Witness ==
  /\ pc[1] = "done"
  /\ req[1].file_format = "PNG"
  /\ ret[1] = Failure("pngquant not found")
  /\ Image(1).data = "raw"

\* C27: whatever happens at or inside a stage, a call of get_figma_images
\* that is over has returned a value, a structured failure or a report: no
\* exception has left it.
C27_NoExceptionEscapes ==
  \A r \in Runs :
    pc[r] = "done" =>
      /\ ~IsException(ret[r])
      /\ \/ IsReport(ret[r])
         \/ "success" \in DOMAIN ret[r] /\ ~ret[r].success

\* C28: a call with a format outside {jpg, png, svg, pdf} or a scale out of
\* range sends no request: it awaits neither the child query nor the name
\* query nor the image-URL query.
C28_ValidatedBeforeAnyRequest ==
  \A r \in Runs :
    pc[r] \in {"children", "names", "fetch"} =>
      (req[r].format \in valid_formats /\ req[r].scale_ok)

\* what the child query and the image-URL query return when they fail, and
\* the failure for an empty image map
StageFailures ==
  { handle_api_error("get_child_node_ids"),
    handle_exception("get_child_node_ids"),
    handle_api_error("get_figma_images_data"),
    handle_exception("get_figma_images_data"),
    Failure("no image urls") }

\* C29: a call ended by the answer to the child query or to the image-URL
\* query ends in that step with a failure value, and the step creates no
\* download task, no file and no upload and builds no provider (the one
\* other end at the image-URL query is the report for a map whose URLs are
\* all empty); a call that returned the failure of one of the two queries,
\* or of the empty image map, has no download task, no downloaded file, no
\* file in the folder and no upload.
C29_EarlyStageFailureEndsCall ==
  /\ [](\A r \in Runs :
          (pc[r] = "done" /\ ret[r] \in StageFailures) =>
            /\ download_tasks[r] = << >>
            /\ downloaded_files[r] = << >>
            /\ uploads[r] = << >>
            /\ \A f \in files : f.by # r)
  /\ [][\A r \in Runs :
          (pc[r] \in {"children", "fetch"} /\ pc'[r] = "done") =>
            \/ /\ "success" \in DOMAIN ret'[r]
               /\ ~ret'[r].success
               /\ download_tasks'[r] = << >>
               /\ uploads'[r] = << >>
               /\ files' = files
               /\ dirExists' = dirExists
               /\ provider' = provider
            \/ /\ pc[r] = "fetch"
               /\ IsReport(ret'[r])
               /\ failed_downloads'[r] # << >>]_vars

\* a call returned the failure of its image-URL query
C29_Witness ==
  /\ pc[1] = "done"
  /\ ret[1] = handle_api_error("get_figma_images_data")
  /\ target[1] > 0
  /\ uploads[1] = << >>

\* the download coroutine t has started: its first request was sent, or its
\* mkdir raised
Started(t) == t.st # "Pending"

\* C30: the step that sends the first request of a call leaves the staging
\* folder removed, and no file of the call, no download task and no upload
\* exists while the child, name or image-URL query is awaited; download
\* tasks are created by the step that takes the answer to the image-URL
\* query and start after it; uploads are created by a step taken when every
\* download task has succeeded, exhausted its attempts or raised, and start
\* after it; no upload exists while downloads run, and no download task
\* while uploads run.
C30_StagesInOrder ==
  /\ [](\A r \in Runs :
          /\ pc[r] \in {"children", "names", "fetch"} =>
               /\ \A f \in files : f.by # r
               /\ download_tasks[r] = << >>
               /\ uploads[r] = << >>
          /\ pc[r] = "download" => uploads[r] = << >>
          /\ pc[r] = "upload" => download_tasks[r] = << >>)
  /\ [][\A r \in Runs :
          /\ (pc[r] \in {"idle", "done"} /\ pc'[r] \in {"children", "names"})
               => (files' = {} /\ ~dirExists')
          /\ (download_tasks[r] = << >> /\ download_tasks'[r] # << >>) =>
               /\ pc[r] = "fetch"
               /\ \A j \in DOMAIN download_tasks'[r] :
                    ~Started(download_tasks'[r][j])
          /\ (\E j \in DOMAIN download_tasks[r] \cap DOMAIN download_tasks'[r] :
                ~Started(download_tasks[r][j]) /\ Started(download_tasks'[r][j]))
               => pc[r] = "download"
          /\ (uploads[r] = << >> /\ uploads'[r] # << >>) =>
               /\ pc[r] = "download"
               /\ \A j \in DOMAIN download_tasks[r] :
                    download_tasks[r][j].st \in
                      {"Succeeded", "Exhausted", "Raised"}
               /\ \A j \in DOMAIN uploads'[r] : uploads'[r][j].st = "Pending"
          /\ (\E j \in DOMAIN uploads[r] \cap DOMAIN uploads'[r] :
                uploads[r][j].st = "Pending" /\ uploads'[r][j].st # "Pending")
               => pc[r] = "upload"]_vars

\* the uploads of a call run: one of its two downloads succeeded, the other
\* one failed, and the upload of the file is awaited
C30_Witness ==
  /\ pc[1] = "upload"
  /\ Len(downloaded_files[1]) = 1
  /\ Len(failed_downloads[1]) = 1
  /\ \E j \in DOMAIN uploads[1] : uploads[1][j].st = "Posting"

\* the request of the call in slot r passes the checks of
\* get_figma_images_data
Passes(r) == req[r].format \in {"jpg", "png", "svg", "pdf"} /\ req[r].scale_ok

\* C31: the node-name query, when it ends in a status other than 200 or in
\* an exception, does not end a call whose arguments are valid: the step
\* goes on to the image-URL query and returns nothing; and every download
\* task of a node that has no name stored has the filename
\* figma_export_<node id>_<timestamp>_<index + 1>.<format>, while a node
\* with a name stored has <name>.<format>.
C31_NameFailureDegrades ==
  /\ [][\A r \in Runs : \A outcome \in {"status", "exception"} :
          (NamesAnswer(r, RawNames, outcome) /\ Passes(r)) =>
            /\ pc'[r] = "fetch"
            /\ ret'[r] = ret[r]
            /\ outcome = "status" =>
                 \A n \in DOMAIN node_names'[r] : node_names'[r][n] = << >>]_vars
  /\ [](\A r \in Runs : \A j \in DOMAIN download_tasks[r] :
          LET t == download_tasks[r][j] IN
          IF node_names[r][t.node_id] = << >>
          THEN \E timestamp \in Times :
                 t.filename = << "figma_export_", ToString(t.node_id), "_",
                                 ToString(timestamp), "_",
                                 ToString(t.node_id), ".", req[r].format >>
          ELSE t.filename = node_names[r][t.node_id] \o << ".", req[r].format >>)

\* no node of a call has a name, and its two downloads run under their
\* fallback filenames
C31_Witness ==
  /\ pc[1] = "download"
  /\ Len(download_tasks[1]) = 2
  /\ \A n \in DOMAIN node_names[1] : node_names[1][n] = << >>
  /\ \A j \in DOMAIN download_tasks[1] :
       download_tasks[1][j].filename[1] = "figma_export_"

\* the states of a download and the steps between them; an attempt whose
\* answer was written stays in progress while the file is compressed
DownloadStates ==
  {"Pending", "Attempting", "Compressing", "Succeeded", "Retrying", "Exhausted"}

DownloadSteps ==
  { <<"Pending", "Attempting">>, <<"Attempting", "Compressing">>,
    <<"Attempting", "Succeeded">>, <<"Compressing", "Succeeded">>,
    <<"Attempting", "Retrying">>, <<"Retrying", "Attempting">>,
    <<"Attempting", "Exhausted">> }

\* C32: a download is Pending, Attempting, Succeeded, Retrying or Exhausted
\* and moves from Pending to Attempting, from Attempting to Succeeded,
\* Retrying or Exhausted, and from Retrying to Attempting; Succeeded and
\* Exhausted are terminal: nothing of the download changes after them, no
\* request and no sleep is added; and a download is Exhausted only after
\* max_retries + 1 attempts.
C32_DownloadStateMachine ==
  /\ [](\A r \in Runs : \A j \in DOMAIN download_tasks[r] :
          LET t == download_tasks[r][j] IN
          /\ t.st \in DownloadStates
          /\ t.st = "Exhausted" => t.requests = t.max_retries + 1)
  /\ [][\A r \in Runs :
          \A j \in DOMAIN download_tasks[r] \cap DOMAIN download_tasks'[r] :
            LET t == download_tasks[r][j]
                after == download_tasks'[r][j]
            IN  /\ after.st # t.st => << t.st, after.st >> \in DownloadSteps
                /\ t.st \in {"Succeeded", "Exhausted"} => after = t]_vars

\* the files the call in slot r has under the filename of its download j
OwnFiles(r, j) ==
  { f \in files : f.by = r /\ f.name = download_tasks[r][j].filename }

\* C33: no file in the folder is partially written; an attempt that ends
\* without a 200 answer changes no file; and a download that ends Exhausted
\* has left no file of its own under its filename.
C33_NoPartialFile ==
  /\ [](\A f \in files : f.data # "partial")
  /\ [](\A r \in Runs : \A j \in DOMAIN download_tasks[r] :
          download_tasks[r][j].st = "Exhausted" => OwnFiles(r, j) = {})
  /\ [][\A r \in Runs : \A j \in DOMAIN download_tasks[r] :
          (\/ DownloadResponse(r, j, {"status", "exception"})
           \/ DownloadWake(r, j))
            => files' = files]_vars

\* the uploads of the call in slot r that ended on a success
SucceededUploads(r) ==
  { j \in DOMAIN uploads[r] :
      uploads[r][j].st = "Done" /\ IsSuccess(uploads[r][j].result) }

\* the sizes of the files of the uploads in J, added up
RECURSIVE SizeOf(_, _)
SizeOf(r, J) ==
  IF J = {} THEN 0
  ELSE LET j == CHOOSE i \in J : TRUE
       IN  uploads[r][j].file_size + SizeOf(r, J \ {j})

\* C34: when upload_multiple_files has returned for a batch of n paths,
\* total_files is n, successful_count and failed_count are the lengths of
\* the two lists and add up to n, every path of the batch is the file_path of
\* exactly one entry of the two lists together, success says that
\* failed_count is 0, and total_size is the sum of the sizes of the files
\* whose upload succeeded.
C34_BatchResultConsistent ==
  \A r \in Runs :
    (pc[r] = "done" /\ uploads[r] # << >>) =>
      LET n == Len(uploads[r])
          entries == ret[r].successful_uploads \o ret[r].failed_uploads
      IN  /\ ret[r].total_files = n
          /\ ret[r].successful_count = Len(ret[r].successful_uploads)
          /\ ret[r].failed_count = Len(ret[r].failed_uploads)
          /\ ret[r].successful_count + ret[r].failed_count = n
          /\ \A j \in DOMAIN uploads[r] :
               Cardinality({ e \in DOMAIN entries :
                 entries[e].file_path = uploads[r][j].file_path }) = 1
          /\ \A e \in DOMAIN entries :
               entries[e].success = (e <= Len(ret[r].successful_uploads))
          /\ ret[r].success = (ret[r].failed_count = 0)
          /\ ret[r].total_size = SizeOf(r, SucceededUploads(r))

\* a batch of two files ended with one of them uploaded, a file written in
\* full, and the other one failed
C34_Witness ==
  /\ pc[1] = "done"
  /\ Len(uploads[1]) = 2
  /\ ~ret[1].success
  /\ ret[1].successful_count = 1
  /\ ret[1].failed_count = 1
  /\ ret[1].total_size = 2

\* the download coroutine j of the call in slot r has its bytes on disk: it
\* is inside the compressor or has returned its success
Written(r, j) == download_tasks[r][j].st \in {"Compressing", "Succeeded"}

\* C35 as stated: an attempt that receives a 200 answer ends the download,
\* whatever becomes of the write; and a download that has its success has
\* written its file once, after attempt + 1 requests and the sleeps
\* 2^0 .. 2^(attempt-1).
C35_FirstOkEndsDownload ==
  /\ [][\A r \in Runs : \A j \in DOMAIN download_tasks[r] :
          DownloadResponse(r, j, {"200", "write_error"})
            => Written(r, j)']_vars
  /\ [](\A r \in Runs : \A j \in DOMAIN download_tasks[r] :
          LET t == download_tasks[r][j] IN
          t.st = "Succeeded" =>
            /\ t.writes = 1
            /\ t.requests = t.attempt + 1
            /\ t.sleeps = Backoff(t.attempt))

\* C35 amended: an attempt whose 200 answer was written to the file in full
\* ends the download: that step writes the file once, the compressor is
\* entered from it alone and is left for the success alone, and from then on
\* no request is sent, no sleep is taken and the download writes no more;
\* such a download, at attempt k, has sent k + 1 requests and slept k times,
\* 2^0 .. 2^(k-1), and each of its k earlier attempts wrote at most once.
C35_WrittenOkEndsDownload ==
  /\ [](\A r \in Runs : \A j \in DOMAIN download_tasks[r] :
          LET t == download_tasks[r][j] IN
          Written(r, j) =>
            /\ t.requests = t.attempt + 1
            /\ Len(t.sleeps) = t.attempt
            /\ \A i \in DOMAIN t.sleeps : t.sleeps[i] = 2 ^ (i - 1)
            /\ t.writes \in 1..(t.attempt + 1))
  /\ [][\A r \in Runs :
          \A j \in DOMAIN download_tasks[r] \cap DOMAIN download_tasks'[r] :
            LET t == download_tasks[r][j]
                after == download_tasks'[r][j]
            IN  /\ (DownloadResponse(r, j, {"200"}) /\ dirExists) =>
                     /\ Written(r, j)'
                     /\ after.writes = t.writes + 1
                /\ (~Written(r, j) /\ after.st = "Compressing")
                     => t.st = "Attempting"
                /\ t.st = "Compressing" =>
                     /\ after.st \in {"Compressing", "Succeeded"}
                     /\ after.st = "Succeeded" => after.result.success
                /\ Written(r, j) =>
                     /\ after.requests = t.requests
                     /\ after.sleeps = t.sleeps
                     /\ after.writes = t.writes
                     /\ after.attempt = t.attempt
                /\ t.st = "Succeeded" => after = t]_vars

\* a download succeeded at its third attempt, the second of which had a 200
\* answer whose write failed: three requests, the sleeps 1 and 2, two writes
C35_Witness ==
  /\ download_tasks[1][1].st = "Succeeded"
  /\ download_tasks[1][1].attempt = 2
  /\ download_tasks[1][1].requests = 3
  /\ download_tasks[1][1].sleeps = << 1, 2 >>
  /\ download_tasks[1][1].writes = 2

============================================================================
